---- MODULE Spec2Model ----
\* A model of bot.js of case-study-bot: the seven exported operations, the
\* private _authenticate, the shared github client handle and the callbacks
\* the client runs when the forge answers.  JavaScript is single threaded:
\* every function call and every callback runs to completion, so each is one
\* action; calls and callbacks of different callers interleave freely.
EXTENDS Integers, Sequences, FiniteSets, TLC

VARIABLES config, client, calls, network, prLabels, hist

vars == <<config, client, calls, network, prLabels, hist>>

\* ------------------------------------------------------------------ bounds
\* callers that may have an operation in flight at the same time
MaxCalls == 2
\* longest label list handed to updateLabels
MaxLabels == 3
\* longest comment list the forge returns
MaxComments == 3
\* repeated updateLabels calls on the same array
MaxRepeat == 4
\* largest configured review threshold
MaxReviews == 2

CallIds == 1..MaxCalls

\* ------------------------------------------------------- JavaScript helpers
Min(a, b) == IF a < b THEN a ELSE b

\* a JavaScript value used as a condition; strings model optional settings
Truthy(s) == s # ""

\* String.prototype.slice(b, e) for 0 <= b, e
slice(s, b, e) == SubSeq(s, b + 1, Min(e, Len(s)))

IsSpace(c) == c \in {" ", "\t", "\n"}

RECURSIVE trimLeft(_)
trimLeft(s) ==
    IF Len(s) > 0 /\ IsSpace(SubSeq(s, 1, 1))
    THEN trimLeft(SubSeq(s, 2, Len(s)))
    ELSE s

RECURSIVE trimRight(_)
trimRight(s) ==
    IF Len(s) > 0 /\ IsSpace(SubSeq(s, Len(s), Len(s)))
    THEN trimRight(SubSeq(s, 1, Len(s) - 1))
    ELSE s

\* String.prototype.trim
trim(s) == trimRight(trimLeft(s))

\* an unanchored literal alternative of a RegExp: s has p as a substring
Contains(s, p) ==
    \E i \in 1..(Len(s) - Len(p) + 1) : SubSeq(s, i, i + Len(p) - 1) = p

\* Array.prototype.indexOf, 0-based, -1 when absent
RECURSIVE indexOfFrom(_, _, _)
indexOfFrom(a, x, i) ==
    IF i > Len(a) THEN -1
    ELSE IF a[i] = x THEN i - 1
    ELSE indexOfFrom(a, x, i + 1)

indexOf(a, x) == indexOfFrom(a, x, 1)

\* Array.prototype.push
push(a, x) == Append(a, x)

\* labels.removeAt(i): the array without the element at 0-based index i
removeAt(a, i) == SubSeq(a, 1, i) \o SubSeq(a, i + 2, Len(a))

\* JSON.stringify of an array of strings
RECURSIVE stringifyFrom(_, _)
stringifyFrom(a, i) ==
    IF i > Len(a) THEN ""
    ELSE (IF i > 1 THEN "," ELSE "") \o "\"" \o a[i] \o "\"" \o stringifyFrom(a, i + 1)

JSONstringify(a) == "[" \o stringifyFrom(a, 1) \o "]"

\* the forge reading a Json parameter back: the names between the quotes
RECURSIVE parseFrom(_, _, _, _, _)
parseFrom(s, i, inStr, cur, acc) ==
    IF i > Len(s) THEN acc
    ELSE LET c == SubSeq(s, i, i) IN
         IF c = "\"" THEN
             IF inStr THEN parseFrom(s, i + 1, FALSE, "", Append(acc, cur))
             ELSE parseFrom(s, i + 1, TRUE, "", acc)
         ELSE IF inStr THEN parseFrom(s, i + 1, TRUE, cur \o c, acc)
         ELSE parseFrom(s, i + 1, FALSE, cur, acc)

JSONparse(s) == parseFrom(s, 1, FALSE, "", <<>>)

\* ------------------------------------------------------------ configuration
labelNeedsReview == "needs-review"
labelReviewed == "reviewed"
instructionsComment == "Hi! Please ask two peers to review this case study. Thanks!"

\* each credential is either unset ("") or set
CredValues == {"", "set"}

Configs ==
    [botUser : CredValues, botPassword : CredValues,
     oauth2key : CredValues, oauth2secret : CredValues,
     reviewsNeeded : 1..MaxReviews]

\* ------------------------------------------------------------------- values
\* label names a PR may carry
LabelNames == {labelNeedsReview, labelReviewed, "bug"}

RECURSIVE SeqsUpTo(_, _)
SeqsUpTo(S, n) ==
    IF n = 0 THEN {<<>>}
    ELSE LET shorter == SeqsUpTo(S, n - 1)
         IN shorter \cup {Append(s, x) : s \in {t \in shorter : Len(t) = n - 1}, x \in S}

LabelLists == SeqsUpTo(LabelNames, MaxLabels)

\* what a caller may pass as `approved`
ApprovedValues == {"true", "false", "undefined"}

\* PR numbers a caller may pass; 0 stands for a missing (falsy) number
PrNumbers == {0, 1}

NoResult == [error |-> FALSE, present |-> FALSE, items |-> <<>>]

NoLabelInfo == [labeledNeedsReview |-> FALSE, labeledReviewed |-> FALSE, labels |-> <<>>]

\* a caller that has no operation running
Idle ==
    [op |-> "none", pc |-> "idle", prNumber |-> 0, approved |-> "undefined",
     labelsIn |-> <<>>, labels |-> <<>>, changed |-> FALSE, hasCb |-> FALSE,
     auths |-> 0, sent |-> 0, cbs |-> 0, cbBool |-> FALSE, cbInfo |-> NoLabelInfo,
     result |-> NoResult]

\* a caller starts an operation when it has none running or unfinished;
\* callers are numbered in the order in which they first call
Free(id) == calls[id].pc = "idle" /\ \A j \in 1..(id - 1) : calls[j].pc # "idle"

\* a caller is through with its finished operation and may start another
collect(id) ==
    /\ calls[id].pc \in {"returned", "threw", "done", "cbthrew"}
    /\ calls' = [calls EXCEPT ![id] = Idle]
    /\ UNCHANGED <<config, client, network, prLabels>>

Request(id, api, payload) ==
    [id |-> id, api |-> api, payload |-> payload,
     auth |-> client'.type, authBy |-> client'.by, n |-> calls'[id].sent]

Pending(id, api) == {r \in network : r.id = id /\ r.api = api}

\* --------------------------------------------------------------- operations
\* _authenticate: the credential type handed to github.authenticate, or a throw
authenticate(cfg) ==
    IF (~Truthy(cfg.botUser) \/ ~Truthy(cfg.botPassword))
         \/ (~Truthy(cfg.oauth2key) \/ ~Truthy(cfg.oauth2secret))
    THEN "throw"
    ELSE IF Truthy(cfg.oauth2key) /\ Truthy(cfg.oauth2secret)
    THEN "oauth"
    ELSE "basic"

\* labels = (!labels || !labels.length) ? [] : labels
normalize(labels) == IF Len(labels) = 0 THEN <<>> ELSE labels

\* variant: the approved branch adds labelReviewed and never removes labelNeedsReview
adjustApproved_keepsNeedsReview(approved, labels) ==
    IF approved /\ indexOf(labels, labelReviewed) = -1
    THEN [labels |-> push(labels, labelReviewed), changed |-> TRUE]
    ELSE [labels |-> labels, changed |-> FALSE]

\* variant: the else-if of the approved branch does not test for labelReviewed
adjustApproved_alwaysPushes(approved, labels) ==
    IF approved /\ indexOf(labels, labelNeedsReview) > -1
    THEN [labels |-> removeAt(labels, indexOf(labels, labelNeedsReview)), changed |-> TRUE]
    ELSE IF approved
    THEN [labels |-> push(labels, labelReviewed), changed |-> TRUE]
    ELSE [labels |-> labels, changed |-> FALSE]

\* the first if / else-if pair of updateLabels
adjustApproved(approved, labels) ==
    IF approved /\ indexOf(labels, labelNeedsReview) > -1
    THEN [labels |-> removeAt(labels, indexOf(labels, labelNeedsReview)), changed |-> TRUE]
    ELSE IF approved /\ indexOf(labels, labelReviewed) = -1
    THEN [labels |-> push(labels, labelReviewed), changed |-> TRUE]
    ELSE [labels |-> labels, changed |-> FALSE]

\* variant: the second pair without its `else`, removing and adding in one call
adjustNotApproved_noElse(approved, st) ==
    LET removed ==
            IF ~approved /\ indexOf(st.labels, labelReviewed) > -1
            THEN [labels |-> removeAt(st.labels, indexOf(st.labels, labelReviewed)),
                  changed |-> TRUE]
            ELSE st
    IN IF ~approved /\ indexOf(removed.labels, labelNeedsReview) = -1
       THEN [labels |-> push(removed.labels, labelNeedsReview), changed |-> TRUE]
       ELSE removed

\* the second if / else-if pair of updateLabels
adjustNotApproved(approved, st) ==
    IF ~approved /\ indexOf(st.labels, labelReviewed) > -1
    THEN [labels |-> removeAt(st.labels, indexOf(st.labels, labelReviewed)), changed |-> TRUE]
    ELSE IF ~approved /\ indexOf(st.labels, labelNeedsReview) = -1
    THEN [labels |-> push(st.labels, labelNeedsReview), changed |-> TRUE]
    ELSE st

\* both pairs in order: the array and the changed flag before `if (changed)`
adjustLabels(approved, labels) ==
    adjustNotApproved(approved, adjustApproved(approved, labels))

\* variant: the parameter check with && in place of ||
insufficient_and(approved, prNumber) ==
    (approved # "true" /\ approved # "false") /\ prNumber = 0

\* (approved !== true && approved !== false) || !prNumber
insufficient(approved, prNumber) ==
    (approved # "true" /\ approved # "false") \/ prNumber = 0

updateLabels(id, prNumber, approved, labels, callback) ==
    /\ Free(id)
    /\ LET start == [Idle EXCEPT !.op = "updateLabels", !.prNumber = prNumber,
                                 !.approved = approved, !.labelsIn = labels,
                                 !.labels = normalize(labels), !.hasCb = callback]
       IN
       IF insufficient(approved, prNumber)
       THEN /\ calls' = [calls EXCEPT ![id] = [start EXCEPT !.pc = "returned"]]
            /\ UNCHANGED <<client, network>>
       ELSE LET adj == adjustLabels(approved = "true", normalize(labels))
                mutated == [start EXCEPT !.labels = adj.labels, !.changed = adj.changed]
            IN
            IF ~adj.changed
            THEN /\ calls' = [calls EXCEPT ![id] = [mutated EXCEPT !.pc = "returned"]]
                 /\ UNCHANGED <<client, network>>
            ELSE IF authenticate(config) = "throw"
            THEN /\ calls' = [calls EXCEPT ![id] = [mutated EXCEPT !.pc = "threw", !.auths = 1]]
                 /\ UNCHANGED <<client, network>>
            ELSE /\ client' = [type |-> authenticate(config), by |-> id]
                 /\ calls' = [calls EXCEPT ![id] =
                                [mutated EXCEPT !.pc = "waiting", !.auths = 1, !.sent = 1]]
                 /\ network' = network \cup
                                {Request(id, "issues.edit", JSONstringify(adj.labels))}
    /\ UNCHANGED <<config, prLabels>>

\* variant: the callback of github.issues.edit without its error check
updateLabelsCb_ignoresError(id, error) ==
    \E r \in Pending(id, "issues.edit") :
        /\ network' = network \ {r}
        /\ prLabels' = IF error THEN prLabels
                       ELSE [labels |-> JSONparse(r.payload), edited |-> TRUE]
        /\ calls' = [calls EXCEPT ![id] =
                       [@ EXCEPT !.pc = "done",
                                 !.result = [NoResult EXCEPT !.error = error, !.present = ~error],
                                 !.cbs = IF calls[id].hasCb THEN calls[id].cbs + 1
                                         ELSE calls[id].cbs]]
        /\ UNCHANGED <<config, client>>

\* the callback of github.issues.edit; a successful edit has replaced the
\* PR's labels on the forge by the list the request carried
updateLabelsCb(id, error) ==
    \E r \in Pending(id, "issues.edit") :
        /\ network' = network \ {r}
        /\ prLabels' = IF error THEN prLabels
                       ELSE [labels |-> JSONparse(r.payload), edited |-> TRUE]
        /\ calls' = [calls EXCEPT ![id] =
                       [@ EXCEPT !.pc = "done",
                                 !.result = [NoResult EXCEPT !.error = error, !.present = ~error],
                                 !.cbs = IF ~error /\ calls[id].hasCb THEN calls[id].cbs + 1 ELSE calls[id].cbs]]
        /\ UNCHANGED <<config, client>>

\* ------------------------------------------------------- read operations
getPullRequests(id, callback) ==
    /\ Free(id)
    /\ calls' = [calls EXCEPT ![id] =
                   [Idle EXCEPT !.op = "getPullRequests", !.pc = "waiting",
                                !.hasCb = callback, !.sent = 1]]
    /\ UNCHANGED <<config, client, prLabels>>
    /\ network' = network \cup {Request(id, "pullRequests.getAll", "")}

getPullRequestsCb(id, error, result) ==
    \E r \in Pending(id, "pullRequests.getAll") :
        /\ network' = network \ {r}
        /\ calls' = [calls EXCEPT ![id] =
                       [@ EXCEPT !.pc = "done",
                                 !.result = [result EXCEPT !.error = error],
                                 !.cbs = IF error THEN calls[id].cbs
                                         ELSE IF ~result.present \/ Len(result.items) = 0
                                                  \/ Len(result.items) < 1
                                         THEN calls[id].cbs
                                         ELSE IF calls[id].hasCb THEN calls[id].cbs + 1 ELSE calls[id].cbs]]
        /\ UNCHANGED <<config, client, prLabels>>

checkForLabel(id, prNumber, callback) ==
    /\ Free(id)
    /\ LET start == [Idle EXCEPT !.op = "checkForLabel", !.prNumber = prNumber,
                                 !.hasCb = callback]
       IN
       IF prNumber = 0
       THEN /\ calls' = [calls EXCEPT ![id] = [start EXCEPT !.pc = "returned"]]
            /\ UNCHANGED <<client, network>>
       ELSE /\ calls' = [calls EXCEPT ![id] = [start EXCEPT !.pc = "waiting", !.sent = 1]]
            /\ UNCHANGED client
            /\ network' = network \cup {Request(id, "issues.getIssueLabels", "")}
    /\ UNCHANGED <<config, prLabels>>

\* the loop of checkForLabel's callback over the fetched label objects
RECURSIVE labelScan(_, _, _)
labelScan(result, i, info) ==
    IF i > Len(result) THEN info
    ELSE labelScan(result, i + 1,
           [labeledNeedsReview |->
                IF result[i].name = labelNeedsReview THEN TRUE ELSE info.labeledNeedsReview,
            labeledReviewed |->
                IF result[i].name = labelReviewed THEN TRUE ELSE info.labeledReviewed,
            labels |-> push(info.labels, result[i])])

checkForLabelCb(id, error, result) ==
    \E r \in Pending(id, "issues.getIssueLabels") :
        /\ network' = network \ {r}
        /\ calls' = [calls EXCEPT ![id] =
                       IF error
                       THEN [@ EXCEPT !.pc = "done", !.result = [result EXCEPT !.error = TRUE]]
                       ELSE [@ EXCEPT !.pc = "done", !.result = result,
                                      !.cbs = IF calls[id].hasCb THEN calls[id].cbs + 1 ELSE calls[id].cbs,
                                      !.cbInfo = IF calls[id].hasCb
                                                 THEN labelScan(result.items, 1, NoLabelInfo)
                                                 ELSE calls[id].cbInfo]]
        /\ UNCHANGED <<config, client, prLabels>>

checkForApprovalComments(id, prNumber, callback) ==
    /\ Free(id)
    /\ LET start == [Idle EXCEPT !.op = "checkForApprovalComments", !.prNumber = prNumber,
                                 !.hasCb = callback]
       IN
       IF prNumber = 0
       THEN /\ calls' = [calls EXCEPT ![id] = [start EXCEPT !.pc = "returned"]]
            /\ UNCHANGED <<client, network>>
       ELSE /\ calls' = [calls EXCEPT ![id] = [start EXCEPT !.pc = "waiting", !.sent = 1]]
            /\ UNCHANGED client
            /\ network' = network \cup {Request(id, "issues.getComments", "")}
    /\ UNCHANGED <<config, prLabels>>

\* lgtm.test(body) for lgtm = /(LGTM)|(Looks good to me!)|w+?/
lgtmTest(body) ==
    \/ Contains(body, "LGTM")
    \/ Contains(body, "Looks good to me!")
    \/ Contains(body, "w")

\* variant: the counting loop without the pattern test
RECURSIVE approvedCount_noTest(_, _, _)
approvedCount_noTest(result, i, count) ==
    IF i > Len(result) THEN count
    ELSE approvedCount_noTest(result, i + 1,
           IF result[i].hasBody /\ Truthy(result[i].body) THEN count + 1 ELSE count)

\* the counting loop of checkForApprovalComments' callback
RECURSIVE approvedCount(_, _, _)
approvedCount(result, i, count) ==
    IF i > Len(result) THEN count
    ELSE approvedCount(result, i + 1,
           IF result[i].hasBody /\ Truthy(result[i].body) /\ lgtmTest(result[i].body)
           THEN count + 1 ELSE count)

checkForApprovalCommentsCb(id, error, result) ==
    \E r \in Pending(id, "issues.getComments") :
        /\ calls[id].op = "checkForApprovalComments"
        /\ network' = network \ {r}
        /\ calls' = [calls EXCEPT ![id] =
                       IF error
                       THEN [@ EXCEPT !.pc = "done", !.result = [result EXCEPT !.error = TRUE]]
                       ELSE [@ EXCEPT !.pc = "done", !.result = result,
                                      !.cbs = IF calls[id].hasCb THEN calls[id].cbs + 1 ELSE calls[id].cbs,
                                      !.cbBool =
                                          IF calls[id].hasCb
                                          THEN approvedCount(result.items, 1, 0)
                                                   >= config.reviewsNeeded
                                          ELSE calls[id].cbBool]]
        /\ UNCHANGED <<config, client, prLabels>>

checkForInstructionsComment(id, prNumber, callback) ==
    /\ Free(id)
    /\ calls' = [calls EXCEPT ![id] =
                   [Idle EXCEPT !.op = "checkForInstructionsComment", !.prNumber = prNumber,
                                !.hasCb = callback, !.pc = "waiting", !.sent = 1]]
    /\ UNCHANGED <<config, client, prLabels>>
    /\ network' = network \cup {Request(id, "issues.getComments", "")}

\* variant: the scan without its break, the last comment deciding
RECURSIVE instructedScan_noBreak(_, _)
instructedScan_noBreak(result, i) ==
    IF Len(result) = 0 THEN "false"
    ELSE IF \E j \in 1..Len(result) : ~result[j].hasBody THEN "throw"
    ELSE IF trim(slice(result[Len(result)].body, 1, 30))
              = trim(slice(instructionsComment, 1, 30))
    THEN "true"
    ELSE "false"

\* the scan of checkForInstructionsComment's callback: the value of
\* `instructed` after the loop, or "throw" when a scanned comment has no body
RECURSIVE instructedScan(_, _)
instructedScan(result, i) ==
    IF i > Len(result) THEN "false"
    ELSE IF ~result[i].hasBody THEN "throw"
    ELSE IF trim(slice(result[i].body, 1, 30)) = trim(slice(instructionsComment, 1, 30))
    THEN "true"
    ELSE instructedScan(result, i + 1)

checkForInstructionsCommentCb(id, error, result) ==
    \E r \in Pending(id, "issues.getComments") :
        /\ calls[id].op = "checkForInstructionsComment"
        /\ network' = network \ {r}
        /\ calls' = [calls EXCEPT ![id] =
                       IF error
                       THEN [@ EXCEPT !.pc = "done", !.result = [result EXCEPT !.error = TRUE]]
                       ELSE IF instructedScan(result.items, 1) = "throw"
                       THEN [@ EXCEPT !.pc = "cbthrew", !.result = result]
                       ELSE [@ EXCEPT !.pc = "done", !.result = result,
                                      !.cbs = IF calls[id].hasCb THEN calls[id].cbs + 1 ELSE calls[id].cbs,
                                      !.cbBool =
                                          IF calls[id].hasCb
                                          THEN instructedScan(result.items, 1) = "true"
                                          ELSE calls[id].cbBool]]
        /\ UNCHANGED <<config, client, prLabels>>

\* --------------------------------------------------- mutating operations
\* variant: postInstructionsComment without its _authenticate call
postInstructionsComment_noAuth(id, prNumber, callback) ==
    /\ Free(id)
    /\ calls' = [calls EXCEPT ![id] =
                   [Idle EXCEPT !.op = "postInstructionsComment", !.prNumber = prNumber,
                                !.hasCb = callback, !.pc = "waiting", !.sent = 1]]
    /\ UNCHANGED <<config, client, prLabels>>
    /\ network' = network \cup {Request(id, "issues.createComment", instructionsComment)}

postInstructionsComment(id, prNumber, callback) ==
    /\ Free(id)
    /\ LET start == [Idle EXCEPT !.op = "postInstructionsComment", !.prNumber = prNumber,
                                 !.hasCb = callback, !.auths = 1]
       IN
       IF authenticate(config) = "throw"
       THEN /\ calls' = [calls EXCEPT ![id] = [start EXCEPT !.pc = "threw"]]
            /\ UNCHANGED <<client, network>>
       ELSE /\ client' = [type |-> authenticate(config), by |-> id]
            /\ calls' = [calls EXCEPT ![id] = [start EXCEPT !.pc = "waiting", !.sent = 1]]
            /\ network' = network \cup
                           {Request(id, "issues.createComment", instructionsComment)}
    /\ UNCHANGED <<config, prLabels>>

postInstructionsCommentCb(id, error) ==
    \E r \in Pending(id, "issues.createComment") :
        /\ network' = network \ {r}
        /\ calls' = [calls EXCEPT ![id] =
                       [@ EXCEPT !.pc = "done",
                                 !.result = [NoResult EXCEPT !.error = error, !.present = ~error],
                                 !.cbs = IF ~error /\ calls[id].hasCb THEN calls[id].cbs + 1 ELSE calls[id].cbs]]
        /\ UNCHANGED <<config, client, prLabels>>

\* merge calls github.pullRequests itself, a section of the client and not one
\* of its methods: `callable` is whether the client build accepts that call
\* (it then sends a request and answers through the callback) or throws
merge(id, prNumber, callback, callable) ==
    /\ Free(id)
    /\ LET start == [Idle EXCEPT !.op = "merge", !.prNumber = prNumber,
                                 !.hasCb = callback, !.auths = 1]
       IN
       IF authenticate(config) = "throw"
       THEN /\ calls' = [calls EXCEPT ![id] = [start EXCEPT !.pc = "threw"]]
            /\ UNCHANGED <<client, network>>
       ELSE IF ~callable
       THEN /\ client' = [type |-> authenticate(config), by |-> id]
            /\ calls' = [calls EXCEPT ![id] = [start EXCEPT !.pc = "threw"]]
            /\ UNCHANGED network
       ELSE /\ client' = [type |-> authenticate(config), by |-> id]
            /\ calls' = [calls EXCEPT ![id] = [start EXCEPT !.pc = "waiting", !.sent = 1]]
            /\ network' = network \cup {Request(id, "pullRequests", "")}
    /\ UNCHANGED <<config, prLabels>>

mergeCb(id, error) ==
    \E r \in Pending(id, "pullRequests") :
        /\ network' = network \ {r}
        /\ calls' = [calls EXCEPT ![id] =
                       [@ EXCEPT !.pc = "done",
                                 !.result = [NoResult EXCEPT !.error = error, !.present = ~error],
                                 !.cbs = IF ~error /\ calls[id].hasCb THEN calls[id].cbs + 1 ELSE calls[id].cbs]]
        /\ UNCHANGED <<config, client, prLabels>>

\* ------------------------------------------------------ what the forge answers
Comment(body) == [hasBody |-> TRUE, body |-> body]

\* a comment object without a body property
NoBodyComment == [hasBody |-> FALSE, body |-> ""]

\* comment bodies: approvals, non-approvals, the instructions template and
\* near misses of it (first character, inside and beyond the compared window)
Bodies ==
    {"LGTM", "not helpful", "Looks good to me!", "wow", "",
     instructionsComment,
     "?i! Please ask two peers to review  ",
     "Hi! Please ask two peers to revise"}

Comments == {Comment(b) : b \in Bodies} \cup {NoBodyComment}

CommentLists == SeqsUpTo(Comments, MaxComments)

\* the few answers the concurrent specification draws from
FewCommentLists ==
    {<<>>, <<Comment("LGTM"), Comment(instructionsComment)>>}

FewLabelLists == {<<labelNeedsReview>>, <<labelReviewed>>}

FewLabelObjects == {<<>>, <<[name |-> labelNeedsReview], [name |-> "bug"]>>}

Answer(items) == [error |-> FALSE, present |-> TRUE, items |-> items]

\* what getAll may hand its callback on success: nothing, no PR, one PR
PullRequestAnswers == {NoResult, Answer(<<>>), Answer(<<1>>)}

\* ------------------------------------------------------------ specifications
NoHist == [lists |-> <<>>, approvals |-> <<>>]

InitCommon ==
    /\ client = [type |-> "none", by |-> 0]
    /\ calls = [id \in CallIds |-> Idle]
    /\ network = {}
    /\ prLabels = [labels |-> <<>>, edited |-> FALSE]

\* any credential configuration
Init ==
    /\ config \in {c \in Configs : c.reviewsNeeded = MaxReviews}
    /\ InitCommon
    /\ hist = NoHist

\* one caller running the operations one after another, on any parameters
Next ==
    \/ \E cb \in BOOLEAN :
         getPullRequests(1, cb) /\ UNCHANGED hist
    \/ \E error \in BOOLEAN, result \in PullRequestAnswers :
         getPullRequestsCb(1, error, result) /\ UNCHANGED hist
    \/ \E pr \in PrNumbers, cb \in BOOLEAN :
         checkForLabel(1, pr, cb) /\ UNCHANGED hist
    \/ \E error \in BOOLEAN, items \in FewLabelObjects :
         checkForLabelCb(1, error, Answer(items)) /\ UNCHANGED hist
    \/ \E pr \in PrNumbers, cb \in BOOLEAN :
         checkForApprovalComments(1, pr, cb) /\ UNCHANGED hist
    \/ \E error \in BOOLEAN, items \in FewCommentLists :
         checkForApprovalCommentsCb(1, error, Answer(items)) /\ UNCHANGED hist
    \/ \E pr \in PrNumbers, cb \in BOOLEAN :
         checkForInstructionsComment(1, pr, cb) /\ UNCHANGED hist
    \/ \E error \in BOOLEAN, items \in FewCommentLists :
         checkForInstructionsCommentCb(1, error, Answer(items)) /\ UNCHANGED hist
    \/ \E pr \in PrNumbers, approved \in ApprovedValues, labels \in LabelLists,
          cb \in BOOLEAN :
         updateLabels(1, pr, approved, labels, cb) /\ UNCHANGED hist
    \/ \E error \in BOOLEAN :
         updateLabelsCb(1, error) /\ UNCHANGED hist
    \/ \E pr \in PrNumbers, cb \in BOOLEAN :
         postInstructionsComment(1, pr, cb) /\ UNCHANGED hist
    \/ \E error \in BOOLEAN :
         postInstructionsCommentCb(1, error) /\ UNCHANGED hist
    \/ \E pr \in PrNumbers, cb \in BOOLEAN, callable \in BOOLEAN :
         merge(1, pr, cb, callable) /\ UNCHANGED hist
    \/ \E error \in BOOLEAN :
         mergeCb(1, error) /\ UNCHANGED hist
    \/ collect(1) /\ UNCHANGED hist

Spec == Init /\ [][Next]_vars

\* several callers whose calls and callbacks interleave; every call passes a
\* PR number and a callback
NextConcurrent ==
    \/ \E id \in CallIds :
         getPullRequests(id, TRUE) /\ UNCHANGED hist
    \/ \E id \in CallIds, error \in BOOLEAN, result \in PullRequestAnswers :
         getPullRequestsCb(id, error, result) /\ UNCHANGED hist
    \/ \E id \in CallIds :
         checkForLabel(id, 1, TRUE) /\ UNCHANGED hist
    \/ \E id \in CallIds, error \in BOOLEAN :
         checkForLabelCb(id, error, Answer(<<>>)) /\ UNCHANGED hist
    \/ \E id \in CallIds :
         checkForApprovalComments(id, 1, TRUE) /\ UNCHANGED hist
    \/ \E id \in CallIds, error \in BOOLEAN :
         checkForApprovalCommentsCb(id, error, Answer(<<>>)) /\ UNCHANGED hist
    \/ \E id \in CallIds :
         checkForInstructionsComment(id, 1, TRUE) /\ UNCHANGED hist
    \/ \E id \in CallIds, error \in BOOLEAN :
         checkForInstructionsCommentCb(id, error, Answer(<<>>)) /\ UNCHANGED hist
    \/ \E id \in CallIds, approved \in ApprovedValues, labels \in FewLabelLists :
         updateLabels(id, 1, approved, labels, TRUE) /\ UNCHANGED hist
    \/ \E id \in CallIds, error \in BOOLEAN :
         updateLabelsCb(id, error) /\ UNCHANGED hist
    \/ \E id \in CallIds :
         postInstructionsComment(id, 1, TRUE) /\ UNCHANGED hist
    \/ \E id \in CallIds, error \in BOOLEAN :
         postInstructionsCommentCb(id, error) /\ UNCHANGED hist
    \/ \E id \in CallIds, callable \in BOOLEAN :
         merge(id, 1, TRUE, callable) /\ UNCHANGED hist
    \/ \E id \in CallIds, error \in BOOLEAN :
         mergeCb(id, error) /\ UNCHANGED hist

SpecConcurrent == Init /\ [][NextConcurrent]_vars

\* one caller calling updateLabels again and again on the array the previous
\* call left, with credentials that let _authenticate pass; hist keeps the
\* arrays (first the one it started with) and the approved values passed
FullConfig(n) ==
    [botUser |-> "set", botPassword |-> "set", oauth2key |-> "set",
     oauth2secret |-> "set", reviewsNeeded |-> n]

InitLabels ==
    /\ config = FullConfig(MaxReviews)
    /\ InitCommon
    /\ \E labels \in LabelLists : hist = [lists |-> <<labels>>, approvals |-> <<>>]

NextLabels ==
    \/ \E approved \in {"true", "false"} :
         /\ Len(hist.approvals) < MaxRepeat
         /\ updateLabels(1, 1, approved, hist.lists[Len(hist.lists)], TRUE)
         /\ hist' = [lists |-> Append(hist.lists, calls'[1].labels),
                     approvals |-> Append(hist.approvals, approved)]
    \/ \E error \in BOOLEAN :
         updateLabelsCb(1, error) /\ UNCHANGED hist
    \/ collect(1) /\ UNCHANGED hist

SpecLabels == InitLabels /\ [][NextLabels]_vars

\* one caller reading the comments of a PR, the forge answering with any
\* comment list, under any review threshold
InitComments ==
    /\ \E n \in 1..MaxReviews : config = FullConfig(n)
    /\ InitCommon
    /\ hist = NoHist

NextComments ==
    \/ \E pr \in PrNumbers, cb \in BOOLEAN :
         checkForApprovalComments(1, pr, cb) /\ UNCHANGED hist
    \/ /\ calls[1].op = "checkForApprovalComments" /\ calls[1].pc = "waiting"
       /\ \E error \in BOOLEAN, items \in CommentLists :
            checkForApprovalCommentsCb(1, error, Answer(items)) /\ UNCHANGED hist
    \/ \E pr \in PrNumbers, cb \in BOOLEAN :
         checkForInstructionsComment(1, pr, cb) /\ UNCHANGED hist
    \/ /\ calls[1].op = "checkForInstructionsComment" /\ calls[1].pc = "waiting"
       /\ \E error \in BOOLEAN, items \in CommentLists :
            checkForInstructionsCommentCb(1, error, Answer(items)) /\ UNCHANGED hist
    \/ collect(1) /\ UNCHANGED hist

SpecComments == InitComments /\ [][NextComments]_vars

\* ------------------------------------------------------------------ claims
Has(l, x) == \E i \in 1..Len(l) : l[i] = x

Distinct(l) == \A i, j \in 1..Len(l) : l[i] = l[j] => i = j

BothTracked(l) == Has(l, labelNeedsReview) /\ Has(l, labelReviewed)

\* l without its first x, the rest in order
RemoveFirst(l, x) ==
    LET i == CHOOSE k \in 1..Len(l) : l[k] = x /\ \A j \in 1..(k - 1) : l[j] # x
    IN SubSeq(l, 1, i - 1) \o SubSeq(l, i + 1, Len(l))

Target(approved) == IF approved = "true" THEN labelReviewed ELSE labelNeedsReview

Opposite(approved) == IF approved = "true" THEN labelNeedsReview ELSE labelReviewed

Requests(id) == {r \in network : r.id = id}

EditRequests == {r \in network : r.api = "issues.edit"}

BasicSet == Truthy(config.botUser) /\ Truthy(config.botPassword)

OAuthSet == Truthy(config.oauth2key) /\ Truthy(config.oauth2secret)

ReadOps ==
    {"getPullRequests", "checkForLabel", "checkForApprovalComments",
     "checkForInstructionsComment"}

MutatingOps == {"updateLabels", "postInstructionsComment", "merge"}

MutatingApis == {"issues.edit", "issues.createComment", "pullRequests"}

\* C1: starting from a label list with distinct names, every edit that
\* updateLabels submits carries at most one of the two tracked labels, and once
\* an edit has succeeded the PR does not carry both.
C1_AtMostOneTracked ==
    Distinct(hist.lists[1]) =>
        /\ \A r \in EditRequests : ~BothTracked(JSONparse(r.payload))
        /\ prLabels.edited => ~BothTracked(prLabels.labels)

\* C1 witness: a list holding both tracked labels was passed and its edit applied
C1_Witness ==
    /\ hist.lists[1] = <<labelNeedsReview, labelReviewed>>
    /\ Len(hist.approvals) = 1
    /\ prLabels.edited
    /\ prLabels.labels = <<labelReviewed>>

\* the inputs on which updateLabels has nothing to change
NoDelta(c) ==
    \/ c.approved = "true" /\ Has(c.labelsIn, labelReviewed)
         /\ ~Has(c.labelsIn, labelNeedsReview)
    \/ c.approved = "false" /\ Has(c.labelsIn, labelNeedsReview)
         /\ ~Has(c.labelsIn, labelReviewed)

\* C2: an edit request is sent only with a changed label list; when the target
\* label is present and the opposite one absent, updateLabels does not
\* authenticate, sends nothing, invokes no callback and leaves the list as it was.
C2_NoEditWithoutDelta ==
    /\ \A r \in EditRequests : JSONparse(r.payload) # calls[r.id].labelsIn
    /\ \A id \in CallIds :
         LET c == calls[id] IN
         /\ (c.op = "updateLabels" /\ c.sent > 0) => c.labels # c.labelsIn
         /\ (c.op = "updateLabels" /\ NoDelta(c)) =>
                /\ c.pc = "returned"
                /\ c.auths = 0 /\ c.sent = 0 /\ c.cbs = 0
                /\ c.labels = c.labelsIn
                /\ Requests(id) = {}

\* C2 witness: updateLabels(1, true, ["reviewed"], callback) has returned
C2_Witness ==
    /\ calls[1].op = "updateLabels" /\ calls[1].pc = "returned"
    /\ calls[1].prNumber = 1 /\ calls[1].approved = "true" /\ calls[1].hasCb
    /\ calls[1].labelsIn = <<labelReviewed>>

\* the one-step asymmetry: the opposite label is there and the target is not
Asymmetry(l, approved) == Has(l, Opposite(approved)) /\ ~Has(l, Target(approved))

\* C3: on a list with distinct names, calls repeated with the same approved
\* value: the first call only removes the opposite label in the asymmetry
\* case; the second call changes nothing, except in that case, where it adds
\* the target label; after two calls the list holds the target label and not
\* the opposite one, and a third call leaves it as it is.
C3_FixedPointInTwoCalls ==
    \A k \in 1..Len(hist.approvals) :
        LET a == hist.approvals[k]
            l0 == hist.lists[k]
            l1 == hist.lists[k + 1]
        IN Distinct(l0) =>
             /\ Asymmetry(l0, a) => l1 = RemoveFirst(l0, Opposite(a))
             /\ (k + 1 <= Len(hist.approvals) /\ hist.approvals[k + 1] = a) =>
                  LET l2 == hist.lists[k + 2] IN
                  /\ l2 = IF Asymmetry(l0, a) THEN Append(l1, Target(a)) ELSE l1
                  /\ Has(l2, Target(a)) /\ ~Has(l2, Opposite(a))
                  /\ (k + 2 <= Len(hist.approvals) /\ hist.approvals[k + 2] = a) =>
                       hist.lists[k + 3] = l2

\* C3 witness: three approved calls starting from ["needs-review"]
C3_Witness ==
    /\ hist.approvals = <<"true", "true", "true">>
    /\ hist.lists = <<(<<labelNeedsReview>>), <<>>, (<<labelReviewed>>), (<<labelReviewed>>)>>

\* the inputs on which updateLabels changes the list
HasDelta(c) ==
    /\ c.op = "updateLabels" /\ c.pc # "idle"
    /\ c.prNumber # 0 /\ c.approved \in {"true", "false"}
    /\ ~NoDelta(c)

\* the list the claim expects an edit to carry
ExpectedEdit(c) ==
    IF Has(c.labelsIn, Opposite(c.approved))
    THEN RemoveFirst(c.labelsIn, Opposite(c.approved))
    ELSE Append(c.labelsIn, Target(c.approved))

\* C4: with a credential set configured, whenever updateLabels has something
\* to change it sends exactly one edit request, carrying the input list with
\* the opposite tracked label removed or else, if the opposite label is absent,
\* with the target label appended.
C4_OneEditWithTheDelta ==
    \A id \in CallIds :
        LET c == calls[id] IN
        (HasDelta(c) /\ (BasicSet \/ OAuthSet)) =>
            /\ c.sent = 1
            /\ c.pc = "waiting" =>
                 \E r \in Requests(id) :
                    /\ Requests(id) = {r}
                    /\ r.api = "issues.edit"
                    /\ JSONparse(r.payload) = ExpectedEdit(c)

\* what C4 says of the edit, for the calls that got past _authenticate
C4_EditCarriesTheDelta ==
    \A id \in CallIds :
        LET c == calls[id] IN
        (HasDelta(c) /\ c.pc # "threw") =>
            /\ c.sent = 1
            /\ c.pc = "waiting" =>
                 \E r \in Requests(id) :
                    /\ Requests(id) = {r}
                    /\ r.api = "issues.edit"
                    /\ JSONparse(r.payload) = ExpectedEdit(c)

\* C9: with a complete basic set, a complete OAuth2 set, or both configured, a
\* mutating operation authenticates (OAuth2 when it can, basic otherwise), and
\* updateLabels and postInstructionsComment go on to send their request
\* without throwing.
C9_EitherCredentialSet ==
    \A id \in CallIds :
        LET c == calls[id] IN
        (/\ c.op \in MutatingOps /\ c.pc # "idle"
         /\ c.op = "updateLabels" => c.changed
         /\ BasicSet \/ OAuthSet) =>
            /\ c.auths = 1
            /\ client.type = IF OAuthSet THEN "oauth" ELSE "basic"
            /\ c.op # "merge" => (c.pc # "threw" /\ c.sent = 1)

\* the comments that count as approvals
Approvals(items) ==
    {i \in 1..Len(items) :
        items[i].hasBody /\ items[i].body # "" /\ lgtmTest(items[i].body)}

Bodies3(a, b, c) == <<Comment(a), Comment(b), Comment(c)>>

\* C5: after a successful fetch the callback of checkForApprovalComments is
\* handed true exactly when at least config.reviewsNeeded comments have a
\* non-empty body matching the pattern; with a threshold of 2 the bodies
\* LGTM, not helpful, Looks good to me! give true and the body LGTM gives false.
C5_ApprovedIffEnoughApprovals ==
    \A id \in CallIds :
        LET c == calls[id] IN
        (/\ c.op = "checkForApprovalComments" /\ c.pc = "done"
         /\ ~c.result.error /\ c.hasCb) =>
            /\ c.cbs = 1
            /\ c.cbBool <=> Cardinality(Approvals(c.result.items)) >= config.reviewsNeeded
            /\ (/\ config.reviewsNeeded = 2
                /\ c.result.items = Bodies3("LGTM", "not helpful", "Looks good to me!"))
                 => c.cbBool
            /\ (config.reviewsNeeded = 2 /\ c.result.items = <<Comment("LGTM")>>)
                 => ~c.cbBool

\* C5 witness: threshold 2, the three bodies of the example, callback got true
C5_Witness ==
    /\ config.reviewsNeeded = 2
    /\ calls[1].op = "checkForApprovalComments" /\ calls[1].pc = "done"
    /\ calls[1].result.items = Bodies3("LGTM", "not helpful", "Looks good to me!")
    /\ calls[1].cbs = 1 /\ calls[1].cbBool

\* comment i carries the instructions: the compared windows agree
IsInstructions(items, i) ==
    /\ items[i].hasBody
    /\ trim(slice(items[i].body, 1, 30)) = trim(slice(instructionsComment, 1, 30))

\* the comments the scan reads: up to and including the first match
Scanned(items) ==
    {i \in 1..Len(items) : \A j \in 1..(i - 1) : ~IsInstructions(items, j)}

C7_ErrorIsSwallowed ==
    \A id \in CallIds :
        LET c == calls[id] IN
        c.result.error =>
            /\ c.op \in ReadOps \cup MutatingOps
            /\ c.pc = "done"
            /\ c.cbs = 0
            /\ c.sent = 1
            /\ Requests(id) = {}

\* C7 witness: an edit of updateLabels, called with a callback, was answered
\* with an error
C7_Witness ==
    /\ calls[1].op = "updateLabels" /\ calls[1].hasCb
    /\ calls[1].pc = "done" /\ calls[1].result.error

\* the calls that lack a required parameter
MissingParameter(c) ==
    \/ /\ c.op \in {"checkForLabel", "checkForApprovalComments", "updateLabels"}
       /\ c.prNumber = 0
    \/ c.op = "updateLabels" /\ c.approved \notin {"true", "false"}

\* C8: a call of checkForLabel, checkForApprovalComments or updateLabels with
\* a falsy PR number, or of updateLabels with an approved that is neither true
\* nor false, returns at once: no authenticate, no request, no callback.
C8_MissingParameterAborts ==
    \A id \in CallIds :
        LET c == calls[id] IN
        MissingParameter(c) =>
            /\ c.pc = "returned"
            /\ c.auths = 0 /\ c.sent = 0 /\ c.cbs = 0
            /\ Requests(id) = {}

\* C8 witness: updateLabels was called with a PR number, a list that needs a
\* change, a callback and an undefined approved
C8_Witness ==
    /\ calls[1].op = "updateLabels" /\ calls[1].pc = "returned"
    /\ calls[1].prNumber = 1 /\ calls[1].approved = "undefined"
    /\ calls[1].labelsIn = <<labelNeedsReview>> /\ calls[1].hasCb

\* C10: every mutating request in flight was sent with the client
\* authenticated by its own operation in the step that sent it; an operation
\* has sent at most one request and invoked its callback at most once, and
\* only after the answer to that request; a read operation has not
\* authenticated.
C10_AuthenticateThenSend ==
    /\ \A r \in network :
         /\ r.n = 1
         /\ r.api \in MutatingApis =>
              /\ r.authBy = r.id
              /\ r.auth \in {"oauth", "basic"}
              /\ calls[r.id].auths = 1
    /\ \A id \in CallIds :
         LET c == calls[id] IN
         /\ c.sent <= 1 /\ c.cbs <= 1
         /\ Cardinality(Requests(id)) <= 1
         /\ Cardinality(Requests(id)) = (IF c.pc = "waiting" THEN 1 ELSE 0)
         /\ c.cbs = 1 => (c.sent = 1 /\ c.pc = "done" /\ ~c.result.error)
         /\ c.op \in ReadOps => c.auths = 0
         /\ (c.op \in MutatingOps /\ c.sent = 1) => c.auths = 1

\* C10 witness: two mutating requests of different callers are in flight
C10_Witness ==
    \E r1, r2 \in network :
        /\ r1.id = 1 /\ r2.id = 2
        /\ r1.api = "issues.edit" /\ r2.api = "issues.createComment"

====
